---- MODULE Spec2Model ----
(***************************************************************************)
(* Model of the redstone circuit graph of bravo/utilities/redstone.py:     *)
(* the Asic coordinate map, Circuit.connect / Circuit.disconnect,          *)
(* Circuit.update and Asic.find_wires, with the four circuit kinds         *)
(* (Wire, PlainBlock, Torch, Lever) and their connectivity rules.          *)
(***************************************************************************)
EXTENDS Integers, Sequences, FiniteSets, TLC

(* ------------------------------ bounds -------------------------------- *)

\* Coordinates of the circuits of Spec range over (0..MaxX) x (0..MaxY) x (0..MaxZ).
MaxX == 2
MaxY == 1
MaxZ == 0
\* Number of circuit objects constructed in Spec.
MaxCircuits == 3
\* Number of circuit objects constructed in SpecEval.
EvalCircuits == 2
\* The board of SpecWires: cells (0..WireX) x {0} x (0..WireZ).
WireX == 2
WireZ == 1
\* Number of propagation passes run in SpecProp.
MaxPasses == 1
\* Number of seed coordinates of a pass.
MaxSeeds == 3

(* ------------------------- circuit objects ---------------------------- *)

VARIABLES
    objs,       \* the constructed circuits: id -> [coords, name, orientation]
    circuits,   \* Asic.circuits: coordinate -> id of the circuit stored there
    inputs,     \* Circuit.inputs, per circuit id
    outputs,    \* Circuit.outputs, per circuit id
    status,     \* Circuit.status, per circuit id
    fw,         \* the running Asic.find_wires call: its deque d and its set wires
    pg,         \* the running propagation pass: its queue, visited set and writes
    codec,      \* a block and metadata with the last codec call made on them
    last        \* the last call as its caller saw it: what it returned or raised

vars == <<objs, circuits, inputs, outputs, status, fw, pg, codec, last>>

Ids == DOMAIN objs

\* The faces blocks[block].face(metadata) decodes to.
Faces == <<"+x", "-x", "+z", "-z", "+y">>

\* The class of a circuit with its orientation: Wire, PlainBlock, Torch, Lever.
Variants ==
    <<[name |-> "wire", orientation |-> "none"],
      [name |-> "plain", orientation |-> "none"]>>
    \o [i \in 1..5 |-> [name |-> "torch", orientation |-> Faces[i]]]
    \o [i \in 1..5 |-> [name |-> "lever", orientation |-> Faces[i]]]

\* Circuit.__init__ / OrientedCircuit.__init__: a circuit at coords.
NewCircuit(coords, variant) ==
    [coords |-> coords, name |-> variant.name, orientation |-> variant.orientation]

\* The class attribute traceables of each circuit class.
traceables(name) ==
    CASE name = "wire" -> {"plain"}
      [] name = "plain" -> {"torch"}
      [] name = "torch" -> {"wire"}
      [] name = "lever" -> {"plain"}

Range(s) == {s[i] : i \in DOMAIN s}

\* A scan of all six neighbours, the two vertical ones included.
HorizontalAndVertical(p) ==
    <<<<p[1] - 1, p[2], p[3]>>, <<p[1] + 1, p[2], p[3]>>,
      <<p[1], p[2], p[3] - 1>>, <<p[1], p[2], p[3] + 1>>,
      <<p[1], p[2] - 1, p[3]>>, <<p[1], p[2] + 1, p[3]>>>>

\* Circuit.iter_inputs / iter_outputs of the base class: the four horizontal
\* neighbours, in the order the generator yields them.
Horizontal(p) ==
    <<<<p[1] - 1, p[2], p[3]>>, <<p[1] + 1, p[2], p[3]>>,
      <<p[1], p[2], p[3] - 1>>, <<p[1], p[2], p[3] + 1>>>>

\* The block an oriented circuit is mounted on (Torch.iter_inputs,
\* Lever.iter_outputs): one coordinate, or nothing for an unknown face.
Mount(p, o) ==
    IF o = "+x" THEN <<<<p[1] - 1, p[2], p[3]>>>>
    ELSE IF o = "-x" THEN <<<<p[1] + 1, p[2], p[3]>>>>
    ELSE IF o = "+z" THEN <<<<p[1], p[2], p[3] - 1>>>>
    ELSE IF o = "-z" THEN <<<<p[1], p[2], p[3] + 1>>>>
    ELSE IF o = "+y" THEN <<<<p[1], p[2] - 1, p[3]>>>>
    ELSE <<>>

\* Torch.iter_outputs: the if / elif cascade on orientation != face.
TorchOutputs(p, o) ==
    IF o # "+x" THEN <<<<p[1] - 1, p[2], p[3]>>>>
    ELSE IF o # "-x" THEN <<<<p[1] + 1, p[2], p[3]>>>>
    ELSE IF o # "+z" THEN <<<<p[1], p[2], p[3] - 1>>>>
    ELSE IF o # "-z" THEN <<<<p[1], p[2], p[3] + 1>>>>
    ELSE IF o # "+y" THEN <<<<p[1], p[2] - 1, p[3]>>>>
    ELSE <<>>

iter_inputs(o) ==
    CASE o.name = "torch" -> Mount(o.coords, o.orientation)
      [] o.name = "lever" -> <<>>
      [] OTHER -> Horizontal(o.coords)

iter_outputs(o) ==
    CASE o.name = "torch" -> TorchOutputs(o.coords, o.orientation)
      [] o.name = "lever" -> Mount(o.coords, o.orientation)
      [] OTHER -> Horizontal(o.coords)

(* ------------------------------ blocks -------------------------------- *)

\* The blocks a circuit is built from: block_to_circuit gives the class of the
\* four redstone blocks; any other block ("sand") makes a PlainBlock.
BlocksOf(name) ==
    CASE name = "wire" -> {"redstone-wire"}
      [] name = "torch" -> {"redstone-torch", "redstone-torch-off"}
      [] name = "lever" -> {"lever"}
      [] name = "plain" -> {"sand"}

\* The 4-bit metadata of a block.
Metadata == 0..15

\* bbool(block, metadata)
bbool(block, metadata) ==
    IF block = "redstone-torch" THEN TRUE
    ELSE IF block = "redstone-torch-off" THEN FALSE
    ELSE IF block = "redstone-wire" THEN metadata # 0
    ELSE IF block = "lever" THEN (metadata \div 8) % 2 = 1
    ELSE FALSE

\* metadata | 0x8 and metadata & ~0x8 on a 4-bit metadata.
Or8(metadata) == IF (metadata \div 8) % 2 = 1 THEN metadata ELSE metadata + 8

AndNot8(metadata) == IF (metadata \div 8) % 2 = 1 THEN metadata - 8 ELSE metadata

\* truthify_block with a wire that is switched on always set to full strength.
truthify_block_full(truth, block, metadata) ==
    IF block \in {"redstone-torch", "redstone-torch-off"}
    THEN IF truth THEN <<"redstone-torch", metadata>> ELSE <<"redstone-torch-off", metadata>>
    ELSE IF block = "redstone-wire"
    THEN IF truth THEN <<block, 15>> ELSE <<block, 0>>
    ELSE IF block = "lever"
    THEN IF truth THEN <<block, Or8(metadata)>> ELSE <<block, AndNot8(metadata)>>
    ELSE <<block, metadata>>

\* truthify_block(truth, block, metadata): the tuple (block, metadata) returned.
truthify_block(truth, block, metadata) ==
    IF block \in {"redstone-torch", "redstone-torch-off"}
    THEN IF truth THEN <<"redstone-torch", metadata>> ELSE <<"redstone-torch-off", metadata>>
    ELSE IF block = "redstone-wire"
    THEN IF truth THEN <<block, IF metadata # 0 THEN metadata ELSE 15>> ELSE <<block, 0>>
    ELSE IF block = "lever"
    THEN IF truth THEN <<block, Or8(metadata)>> ELSE <<block, AndNot8(metadata)>>
    ELSE <<block, metadata>>

\* The blocks the codec is called on: the four redstone blocks and any other.
CodecBlocks == {"redstone-torch", "redstone-torch-off", "redstone-wire", "lever", "sand"}

NoCodec == [op |-> "none", block |-> "none", metadata |-> 0, truth |-> FALSE, ret |-> <<>>]

\* bbool called on the block and its metadata.
BboolCall ==
    /\ codec.block \in CodecBlocks
    /\ codec' = [codec EXCEPT !.op = "bbool",
                              !.truth = bbool(codec.block, codec.metadata),
                              !.ret = <<>>]
    /\ UNCHANGED <<objs, circuits, inputs, outputs, status, fw, pg, last>>

\* truthify_block called with a truth value on the block and its metadata.
TruthifyCall(truth) ==
    /\ codec.block \in CodecBlocks
    /\ codec' = [codec EXCEPT !.op = "truthify_block",
                              !.truth = truth,
                              !.ret = truthify_block(truth, codec.block, codec.metadata)]
    /\ UNCHANGED <<objs, circuits, inputs, outputs, status, fw, pg, last>>

(* ------------------------- the circuit graph ------------------------- *)

\* The coordinate map and every circuit's edge sets, as one value.
Graph == [circuits |-> circuits, inputs |-> inputs, outputs |-> outputs]

\* The circuits stored in the Asic.
StoredIn(g) == {g.circuits[k] : k \in DOMAIN g.circuits}

IsStored(c) == c \in StoredIn(Graph)

(* ------------------------- Circuit.connect ---------------------------- *)

\* The test without its identity half: any occupant raises, self included.
ConnectRaisesOnAny(g, c) == objs[c].coords \in DOMAIN g.circuits

\* self.coords in circuits and circuits[self.coords] is not self
ConnectRaises(g, c) ==
    /\ objs[c].coords \in DOMAIN g.circuits
    /\ g.circuits[objs[c].coords] # c

\* circuits[self.coords] = self
Stored(g, c) == (objs[c].coords :> c) @@ g.circuits

\* The targets of the first loop: the circuits at an input coordinate whose
\* traceables hold self.name.
InputTargets(g, c) ==
    LET m == Stored(g, c)
    IN  {m[k] : k \in {k \in Range(iter_inputs(objs[c])) \cap DOMAIN m :
                         objs[c].name \in traceables(objs[m[k]].name)}}

\* The second loop without its traceables test.
OutputTargetsUnfiltered(g, c) ==
    LET m == Stored(g, c)
    IN  {m[k] : k \in Range(iter_outputs(objs[c])) \cap DOMAIN m}

\* The targets of the second loop: the circuits at an output coordinate whose
\* name is in self.traceables.
OutputTargets(g, c) ==
    LET m == Stored(g, c)
    IN  {m[k] : k \in {k \in Range(iter_outputs(objs[c])) \cap DOMAIN m :
                         objs[m[k]].name \in traceables(objs[c].name)}}

\* connect without target.outputs.add(self) in its first loop.
ConnectedOneSided(g, c) ==
    IF ConnectRaises(g, c) THEN g
    ELSE LET ins == InputTargets(g, c)
             outs == OutputTargets(g, c)
         IN  [circuits |-> Stored(g, c),
              inputs |-> [i \in Ids |->
                  IF i = c THEN g.inputs[i] \cup ins
                  ELSE IF i \in outs THEN g.inputs[i] \cup {c}
                  ELSE g.inputs[i]],
              outputs |-> [i \in Ids |->
                  IF i = c THEN g.outputs[i] \cup outs
                  ELSE g.outputs[i]]]

\* connect with the two traceables tests the other way round: an input must be
\* named in self.traceables, and self in an output's traceables.
ConnectedReversed(g, c) ==
    IF ConnectRaises(g, c) THEN g
    ELSE LET m == Stored(g, c)
             ins == {m[k] : k \in {k \in Range(iter_inputs(objs[c])) \cap DOMAIN m :
                                     objs[m[k]].name \in traceables(objs[c].name)}}
             outs == {m[k] : k \in {k \in Range(iter_outputs(objs[c])) \cap DOMAIN m :
                                      objs[c].name \in traceables(objs[m[k]].name)}}
         IN  [circuits |-> m,
              inputs |-> [i \in Ids |->
                  IF i = c THEN g.inputs[i] \cup ins
                  ELSE IF i \in outs THEN g.inputs[i] \cup {c}
                  ELSE g.inputs[i]],
              outputs |-> [i \in Ids |->
                  IF i = c THEN g.outputs[i] \cup outs
                  ELSE IF i \in ins THEN g.outputs[i] \cup {c}
                  ELSE g.outputs[i]]]

\* Circuit.connect as a function of the graph; a raise leaves the graph as it is.
Connected(g, c) ==
    IF ConnectRaises(g, c) THEN g
    ELSE LET ins == InputTargets(g, c)
             outs == OutputTargets(g, c)
         IN  [circuits |-> Stored(g, c),
              inputs |-> [i \in Ids |->
                  IF i = c THEN g.inputs[i] \cup ins
                  ELSE IF i \in outs THEN g.inputs[i] \cup {c}
                  ELSE g.inputs[i]],
              outputs |-> [i \in Ids |->
                  IF i = c THEN g.outputs[i] \cup outs
                  ELSE IF i \in ins THEN g.outputs[i] \cup {c}
                  ELSE g.outputs[i]]]

connect(c) ==
    LET g == Connected(Graph, c)
    IN  /\ circuits' = g.circuits
        /\ inputs' = g.inputs
        /\ outputs' = g.outputs
        /\ UNCHANGED status

(* ------------------------ Circuit.disconnect -------------------------- *)

\* disconnect without its second test: the occupant is not compared with self.
DisconnectErrorNoMismatch(g, c) ==
    IF objs[c].coords \notin DOMAIN g.circuits THEN "NotAttached" ELSE "none"

\* The two raises of disconnect, by the names the specification gives them.
DisconnectError(g, c) ==
    IF objs[c].coords \notin DOMAIN g.circuits THEN "NotAttached"
    ELSE IF g.circuits[objs[c].coords] # c THEN "Mismatch"
    ELSE "none"

\* disconnect without its second loop (circuit.inputs.discard(self)).
DisconnectedOneLoop(g, c) ==
    IF DisconnectError(g, c) # "none" THEN g
    ELSE [circuits |-> [k \in DOMAIN g.circuits \ {objs[c].coords} |-> g.circuits[k]],
          inputs |-> [i \in Ids |-> IF i = c THEN {} ELSE g.inputs[i]],
          outputs |-> [i \in Ids |->
              IF i = c THEN {}
              ELSE IF i \in g.inputs[c] THEN g.outputs[i] \ {c}
              ELSE g.outputs[i]]]

\* Circuit.disconnect as a function of the graph.
Disconnected(g, c) ==
    IF DisconnectError(g, c) # "none" THEN g
    ELSE [circuits |-> [k \in DOMAIN g.circuits \ {objs[c].coords} |-> g.circuits[k]],
          inputs |-> [i \in Ids |->
              IF i = c THEN {}
              ELSE IF i \in g.outputs[c] THEN g.inputs[i] \ {c}
              ELSE g.inputs[i]],
          outputs |-> [i \in Ids |->
              IF i = c THEN {}
              ELSE IF i \in g.inputs[c] THEN g.outputs[i] \ {c}
              ELSE g.outputs[i]]]

disconnect(c) ==
    LET g == Disconnected(Graph, c)
    IN  /\ circuits' = g.circuits
        /\ inputs' = g.inputs
        /\ outputs' = g.outputs
        /\ UNCHANGED status

(* -------------------------- Circuit.update ---------------------------- *)

\* The op of each class applied to the statuses of the inputs `ins`:
\* any() for Wire and PlainBlock, operator.not_ for Torch (one argument, a
\* TypeError otherwise), Lever.op (raises on any input).
Op(c, ins) ==
    CASE objs[c].name \in {"wire", "plain"} ->
            [raised |-> "none", value |-> \E i \in ins : status[i]]
      [] objs[c].name = "torch" ->
            IF Cardinality(ins) = 1
            THEN [raised |-> "none", value |-> \A i \in ins : ~status[i]]
            ELSE [raised |-> "TypeError", value |-> status[c]]
      [] objs[c].name = "lever" ->
            IF ins # {}
            THEN [raised |-> "RedstoneError", value |-> status[c]]
            ELSE [raised |-> "none", value |-> status[c]]

\* update returning self.outputs also when the status has not changed.
UpdatedAlwaysReturns(c) ==
    IF inputs[c] = {}
    THEN [status |-> status[c], ret |-> {}, called |-> FALSE, raised |-> "none"]
    ELSE LET r == Op(c, inputs[c])
         IN  IF r.raised # "none"
             THEN [status |-> status[c], ret |-> {}, called |-> TRUE, raised |-> r.raised]
             ELSE [status |-> r.value, ret |-> outputs[c], called |-> TRUE, raised |-> "none"]

\* Circuit.update: the status afterwards, the returned circuits, whether op was
\* called and what it raised.
Updated(c) ==
    IF inputs[c] = {}
    THEN [status |-> status[c], ret |-> {}, called |-> FALSE, raised |-> "none"]
    ELSE LET r == Op(c, inputs[c])
         IN  IF r.raised # "none"
             THEN [status |-> status[c], ret |-> {}, called |-> TRUE, raised |-> r.raised]
             ELSE IF status[c] # r.value
             THEN [status |-> r.value, ret |-> outputs[c], called |-> TRUE, raised |-> "none"]
             ELSE [status |-> status[c], ret |-> {}, called |-> TRUE, raised |-> "none"]

\* update that also writes the new status to the outputs it returns.
updatePushing(c) ==
    /\ status' = [i \in Ids |->
                     IF i = c \/ i \in Updated(c).ret THEN Updated(c).status ELSE status[i]]
    /\ UNCHANGED <<circuits, inputs, outputs>>

update(c) ==
    /\ status' = [status EXCEPT ![c] = Updated(c).status]
    /\ UNCHANGED <<circuits, inputs, outputs>>

\* Circuit.from_block: self.status = bbool(block, metadata)
from_block(c, block, metadata) ==
    /\ status' = [status EXCEPT ![c] = bbool(block, metadata)]
    /\ UNCHANGED <<circuits, inputs, outputs>>

\* inputs = [i.status for i in self.inputs]: the list read in the order o.
StatusList(o) == [k \in DOMAIN o |-> status[o[k]]]

\* The orders a set of circuits can be iterated in.
Orders(cs) == {o \in [1..Cardinality(cs) -> cs] : Range(o) = cs}

\* any(inputs) on a list of truth values.
RECURSIVE any(_)
any(l) == IF l = <<>> THEN FALSE ELSE l[1] \/ any(Tail(l))

\* operator.not_ on the one argument of a list of one.
not_(l) == ~l[1]

(* ------------------------- Asic.find_wires ---------------------------- *)

Idle == [pc |-> "idle", at |-> <<>>, d |-> <<>>, wires |-> {}]

\* What a call gave back: None, or a set of circuits.
None == [none |-> TRUE, wires |-> {}]
SetOf(ws) == [none |-> FALSE, wires |-> ws]

\* chain(w.iter_inputs(), w.iter_outputs())
Neighbors(w) == iter_inputs(objs[w]) \o iter_outputs(objs[w])

\* The for loop without the test of circuit.name.
RECURSIVE ScanAnyCircuit(_, _, _, _)
ScanAnyCircuit(d, wires, ns, i) ==
    IF i > Len(ns) THEN d
    ELSE IF ns[i] \notin DOMAIN circuits THEN ScanAnyCircuit(d, wires, ns, i + 1)
    ELSE IF circuits[ns[i]] \notin wires
         THEN ScanAnyCircuit(<<circuits[ns[i]]>> \o d, wires, ns, i + 1)
         ELSE ScanAnyCircuit(d, wires, ns, i + 1)

\* The for loop over the neighbours ns[i..]: d.appendleft(circuit) for each
\* stored wire that is not in wires.
RECURSIVE Scan(_, _, _, _)
Scan(d, wires, ns, i) ==
    IF i > Len(ns) THEN d
    ELSE IF ns[i] \notin DOMAIN circuits THEN Scan(d, wires, ns, i + 1)
    ELSE IF objs[circuits[ns[i]]].name = "wire" /\ circuits[ns[i]] \notin wires
         THEN Scan(<<circuits[ns[i]]>> \o d, wires, ns, i + 1)
         ELSE Scan(d, wires, ns, i + 1)

\* find_wires with its first early return only.
FindWiresNoneIfAbsent(p) == p \notin DOMAIN circuits

\* The two early returns of find_wires.
FindWiresNone(p) ==
    \/ p \notin DOMAIN circuits
    \/ objs[circuits[p]].name # "wire"

\* find_wires(x, y, z) up to the while loop.
FindWiresCall(p) ==
    /\ fw.pc = "idle"
    /\ IF FindWiresNone(p)
       THEN /\ fw' = fw
            /\ last' = [op |-> "find_wires", c |-> 0, at |-> p, err |-> "none", ret |-> None]
       ELSE /\ fw' = [pc |-> "loop", at |-> p, d |-> <<circuits[p]>>, wires |-> {circuits[p]}]
            /\ last' = [op |-> "find_wires", c |-> 0, at |-> p, err |-> "running", ret |-> None]
    /\ UNCHANGED <<objs, circuits, inputs, outputs, status, pg, codec>>

\* One pass of the while loop: w = d.pop(), the scan of its neighbours,
\* wires.add(w).
LoopBody(f) ==
    LET w == f.d[Len(f.d)]
    IN  [f EXCEPT !.d = Scan(SubSeq(f.d, 1, Len(f.d) - 1), f.wires, Neighbors(w), 1),
                  !.wires = f.wires \cup {w}]

\* while d: ... ; return wires
FindWiresStep ==
    /\ fw.pc = "loop"
    /\ IF fw.d = <<>>
       THEN /\ fw' = Idle
            /\ last' = [last EXCEPT !.err = "none", !.ret = SetOf(fw.wires)]
       ELSE /\ fw' = LoopBody(fw)
            /\ last' = last
    /\ UNCHANGED <<objs, circuits, inputs, outputs, status, pg, codec>>

(* --------------------------- propagation ------------------------------ *)

\* Circuit.to_block: truthify_block(self.status, block, metadata), with the
\* status st.
to_block(st, block, metadata) == truthify_block(st, block, metadata)

\* No pass has been asked for.
NoPass ==
    [pc |-> "idle", passes |-> 0, seeds |-> {}, queue |-> <<>>, visited |-> {},
     evals |-> <<>>, writes |-> <<>>, err |-> "none"]

\* Coordinates in lexicographic order.
Before(p, q) ==
    \/ p[1] < q[1]
    \/ p[1] = q[1] /\ p[2] < q[2]
    \/ p[1] = q[1] /\ p[2] = q[2] /\ p[3] < q[3]

\* The circuits cs (at distinct coordinates) in the fixed iteration order:
\* sorted by coordinate.
RECURSIVE ByCoords(_)
ByCoords(cs) ==
    IF cs = {} THEN <<>>
    ELSE LET m == CHOOSE c \in cs :
                      \A d \in cs \ {c} : Before(objs[c].coords, objs[d].coords)
         IN  <<m>> \o ByCoords(cs \ {m})

\* propagate(seed_coords): the queue seeded with every circuit at a seed
\* coordinate, absent seeds skipped.
PropagateCall(seeds) ==
    /\ fw.pc = "idle"
    /\ pg.pc # "run"
    /\ pg.passes < MaxPasses
    /\ pg' = [pc |-> "run", passes |-> pg.passes + 1, seeds |-> seeds,
              queue |-> ByCoords({circuits[k] : k \in seeds \cap DOMAIN circuits}),
              visited |-> {},
              evals |-> [i \in Ids |-> 0],
              writes |-> <<>>,
              err |-> "none"]
    /\ UNCHANGED <<objs, circuits, inputs, outputs, status, fw, codec, last>>

\* A pass that puts every changed circuit's outputs in the queue again,
\* visited or not.
PassStepUnchecked(f, c, r) ==
    LET changed == r.status # status[c]
        more == IF changed THEN r.ret ELSE {}
    IN  [f EXCEPT !.queue = Tail(f.queue) \o ByCoords(more),
                  !.visited = f.visited \cup more,
                  !.evals = [f.evals EXCEPT ![c] = @ + 1],
                  !.writes = IF changed
                             THEN Append(@, <<objs[c].coords>>
                                     \o to_block(r.status, objs[c].block, objs[c].metadata))
                             ELSE @]

\* One circuit popped from the front and evaluated: r is what update gave.
\* A changed circuit's outputs that are not in visited_this_pass are put in
\* the queue (and are in visited_this_pass from then on); a changed circuit's
\* block is recorded as a write.
PassStep(f, c, r) ==
    LET changed == r.status # status[c]
        more == IF changed THEN r.ret \ f.visited ELSE {}
    IN  [f EXCEPT !.queue = Tail(f.queue) \o ByCoords(more),
                  !.visited = f.visited \cup more,
                  !.evals = [f.evals EXCEPT ![c] = @ + 1],
                  !.writes = IF changed
                             THEN Append(@, <<objs[c].coords>>
                                     \o to_block(r.status, objs[c].block, objs[c].metadata))
                             ELSE @]

\* The pass: until the queue is empty, pop and evaluate; an error of update
\* is surfaced as it is and ends the pass.
PropagateStep ==
    /\ pg.pc = "run"
    /\ IF pg.queue = <<>>
       THEN /\ pg' = [pg EXCEPT !.pc = "done"]
            /\ status' = status
       ELSE LET c == Head(pg.queue)
                r == Updated(c)
            IN  IF r.raised # "none"
                THEN /\ pg' = [pg EXCEPT !.pc = "done", !.err = r.raised,
                                         !.evals = [pg.evals EXCEPT ![c] = @ + 1]]
                     /\ status' = status
                ELSE /\ pg' = PassStep(pg, c, r)
                     /\ status' = [status EXCEPT ![c] = r.status]
    /\ UNCHANGED <<objs, circuits, inputs, outputs, fw, codec, last>>

(* ------------------------------ calls --------------------------------- *)

NoCall == [op |-> "none", c |-> 0, at |-> <<>>, err |-> "none", ret |-> None]

\* circuit.connect(asic), its exception seen by the caller.
AttachCall(c) ==
    /\ fw.pc = "idle" /\ pg.pc = "idle"
    /\ connect(c)
    /\ last' = [op |-> "attach", c |-> c, at |-> objs[c].coords,
                err |-> IF ConnectRaises(Graph, c) THEN "Occupied" ELSE "none",
                ret |-> None]
    /\ UNCHANGED <<objs, fw, pg, codec>>

\* circuit.disconnect(asic), its exception seen by the caller.
DetachCall(c) ==
    /\ fw.pc = "idle" /\ pg.pc = "idle"
    /\ disconnect(c)
    /\ last' = [op |-> "detach", c |-> c, at |-> objs[c].coords,
                err |-> DisconnectError(Graph, c), ret |-> None]
    /\ UNCHANGED <<objs, fw, pg, codec>>

\* circuit.update(), what it returned or raised seen by the caller.
UpdateCall(c) ==
    /\ fw.pc = "idle"
    /\ update(c)
    /\ last' = [op |-> IF Updated(c).called THEN "update_op" ELSE "update",
                c |-> c, at |-> objs[c].coords,
                err |-> Updated(c).raised, ret |-> SetOf(Updated(c).ret)]
    /\ UNCHANGED <<objs, fw, pg, codec>>

\* A lever switched by hand: its status read again from its block.
ToggleCall(c, metadata) ==
    /\ fw.pc = "idle" /\ pg.pc = "idle"
    /\ objs[c].name = "lever"
    /\ from_block(c, "lever", metadata)
    /\ last' = [op |-> "toggle", c |-> c, at |-> objs[c].coords, err |-> "none", ret |-> None]
    /\ UNCHANGED <<objs, fw, pg, codec>>

\* The same calls with nobody recording their outcome.
Attach(c) == pg.pc = "idle" /\ connect(c) /\ UNCHANGED <<objs, fw, pg, codec, last>>

Detach(c) == pg.pc = "idle" /\ disconnect(c) /\ UNCHANGED <<objs, fw, pg, codec, last>>

(* ----------------- Spec: any circuits, attach and detach -------------- *)

Cells == {<<x, y, z>> : x \in 0..MaxX, y \in 0..MaxY, z \in 0..MaxZ}

CellSeq == CHOOSE s \in [1..Cardinality(Cells) -> Cells] : Range(s) = Cells

NTypes == Cardinality(Cells) * Len(Variants)

TypeOf(k) == NewCircuit(CellSeq[(k \div Len(Variants)) + 1], Variants[(k % Len(Variants)) + 1])

\* n circuits constructed at any cells, of any class and orientation (listed in
\* one order: which object gets which id makes no difference).
Pools(n) ==
    {[i \in 1..n |-> TypeOf(ks[i])] :
        ks \in {ks \in [1..n -> 0..(NTypes - 1)] : \A i \in 1..(n - 1) : ks[i] <= ks[i + 1]}}

\* An Asic() just constructed, and the circuits connected to nothing.
InitAsic ==
    /\ circuits = <<>>
    /\ inputs = [i \in Ids |-> {}]
    /\ outputs = [i \in Ids |-> {}]
    /\ fw = Idle
    /\ pg = NoPass
    /\ codec = NoCodec
    /\ last = NoCall

Init ==
    /\ objs \in Pools(MaxCircuits)
    /\ status = [i \in Ids |-> FALSE]
    /\ InitAsic

Next ==
    \/ \E c \in Ids : Attach(c)
    \/ \E c \in Ids : Detach(c)

Spec == Init /\ [][Next]_vars

(* ------- SpecEval: circuits built from blocks, evaluated, observed ---- *)

\* The statuses __init__ can give the circuits: from_block on a block of the
\* circuit's class with any metadata.
InitStatus ==
    /\ status \in [Ids -> BOOLEAN]
    /\ \A i \in Ids :
         status[i] \in {bbool(b, m) : b \in BlocksOf(objs[i].name), m \in Metadata}

\* Four circuits in a chain: a torch beside a wire, the wire beside a plain
\* block, and a lever mounted on that block.
ChainPool ==
    <<NewCircuit(<<0, 0, 0>>, Variants[7]), NewCircuit(<<1, 0, 0>>, Variants[1]),
      NewCircuit(<<2, 0, 0>>, Variants[2]), NewCircuit(<<2, 1, 0>>, Variants[12])>>

InitEval ==
    /\ objs \in Pools(EvalCircuits) \cup {ChainPool}
    /\ InitStatus
    /\ InitAsic

NextEval ==
    \/ \E c \in Ids : AttachCall(c)
    \/ \E c \in Ids : DetachCall(c)
    \/ \E c \in Ids : UpdateCall(c)
    \/ \E c \in Ids, m \in {0, 8} : ToggleCall(c, m)
    \/ \E p \in Cells : FindWiresCall(p)
    \/ FindWiresStep

SpecEval == InitEval /\ [][NextEval]_vars

(* -------- SpecWires: a board of wires and plain blocks, observed ------ *)

Board == {<<x, 0, z>> : x \in 0..WireX, z \in 0..WireZ}

BoardSeq == CHOOSE s \in [1..Cardinality(Board) -> Board] : Range(s) = Board

\* A Wire and a PlainBlock constructed for every cell of the board.
BoardPool ==
    [i \in 1..(2 * Cardinality(Board)) |->
        NewCircuit(BoardSeq[((i - 1) \div 2) + 1], Variants[((i - 1) % 2) + 1])]

InitWires ==
    /\ objs = BoardPool
    /\ status = [i \in Ids |-> FALSE]
    /\ InitAsic

NextWires ==
    \/ \E c \in Ids : AttachCall(c)
    \/ \E c \in Ids : DetachCall(c)
    \/ \E p \in Board : FindWiresCall(p)
    \/ FindWiresStep

\* find_wires runs to its return once called: nothing else runs meanwhile.
SpecWires == InitWires /\ [][NextWires]_vars /\ WF_vars(FindWiresStep)

(* ------ SpecProp: circuits built from blocks, wired, propagated ------- *)

\* The metadata blocks[block].face(metadata) decodes to the face o.
FaceCode(o) == CHOOSE i \in DOMAIN Faces : Faces[i] = o

\* Circuit.__init__(coordinates, block, metadata) of the class block_to_circuit
\* gives: the circuit with the block it was built from.
BuiltFrom(coords, variant, block, metadata) ==
    [coords |-> coords, name |-> variant.name, orientation |-> variant.orientation,
     block |-> block, metadata |-> metadata]

\* The blocks a circuit of a class can be built from, as (block, metadata):
\* a torch on or off, a wire with no or full signal, a lever that is off.
BlockChoices(variant) ==
    CASE variant.name = "torch" ->
            <<<<"redstone-torch-off", FaceCode(variant.orientation)>>,
              <<"redstone-torch", FaceCode(variant.orientation)>>>>
      [] variant.name = "wire" -> <<<<"redstone-wire", 0>>, <<"redstone-wire", 15>>>>
      [] variant.name = "lever" -> <<<<"lever", FaceCode(variant.orientation)>>>>
      [] variant.name = "plain" -> <<<<"sand", 0>>>>

\* A loop of six: torch -> wire -> plain -> torch -> wire -> plain -> torch,
\* each torch mounted on the plain block that drives it.
RingLayout ==
    <<<<(<<0, 0, 0>>), 6>>, <<(<<1, 0, 0>>), 1>>, <<(<<2, 0, 0>>), 2>>,
      <<(<<2, 0, 1>>), 5>>, <<(<<1, 0, 1>>), 1>>, <<(<<0, 0, 1>>), 2>>>>

\* A plain block between two wires, a torch between two plain blocks, and a
\* torch beside a wire.
FanLayout ==
    <<<<(<<0, 0, 0>>), 1>>, <<(<<1, 0, 0>>), 2>>, <<(<<2, 0, 0>>), 1>>,
      <<(<<0, 0, 1>>), 2>>, <<(<<1, 0, 1>>), 5>>, <<(<<2, 0, 1>>), 7>>>>

\* A lever mounted +y on a plain block, and a wire beside that block.
LeverLayout ==
    <<<<(<<0, 0, 0>>), 12>>, <<(<<0, -1, 0>>), 2>>, <<(<<1, -1, 0>>), 1>>>>

Layouts == {RingLayout, FanLayout, LeverLayout}

\* The circuits of a layout, built from any of their blocks.
PoolsOf(layout) ==
    {[i \in DOMAIN layout |->
        LET v == Variants[layout[i][2]]
            bs == BlockChoices(v)
            b == bs[IF ks[i] <= Len(bs) THEN ks[i] ELSE 1]
        IN  BuiltFrom(layout[i][1], v, b[1], b[2])] :
     ks \in [DOMAIN layout -> 1..2]}

\* The seed sets of a pass: up to MaxSeeds coordinates of constructed circuits,
\* attached or not.
SeedSets ==
    {seeds \in SUBSET {objs[i].coords : i \in Ids} : Cardinality(seeds) <= MaxSeeds}

InitProp ==
    /\ \E layout \in Layouts : objs \in PoolsOf(layout)
    /\ status = [i \in Ids |-> bbool(objs[i].block, objs[i].metadata)]
    /\ InitAsic

NextProp ==
    \/ \E c \in Ids : Attach(c)
    \/ \E c \in Ids : Detach(c)
    \/ \E c \in Ids, m \in {0, 8} : ToggleCall(c, m)
    \/ \E seeds \in SeedSets : PropagateCall(seeds)
    \/ PropagateStep

\* A pass runs to its end once called: there is no suspension point in it.
SpecProp == InitProp /\ [][NextProp]_vars /\ WF_vars(PropagateStep)

(* ------------- SpecCodec: the codec on any block and metadata --------- *)

InitCodec ==
    /\ objs = <<>>
    /\ status = <<>>
    /\ circuits = <<>>
    /\ inputs = <<>>
    /\ outputs = <<>>
    /\ fw = Idle
    /\ pg = NoPass
    /\ last = NoCall
    /\ \E b \in CodecBlocks, m \in Metadata :
          codec = [NoCodec EXCEPT !.block = b, !.metadata = m]

NextCodec ==
    \/ BboolCall
    \/ \E truth \in BOOLEAN : TruthifyCall(truth)

SpecCodec == InitCodec /\ [][NextCodec]_vars

(* ======================= properties of the graph ====================== *)

\* C1. Edge symmetry: in every state reached by attach and detach calls, for
\* every pair of circuits (a, b) stored in the Asic, a is in b.inputs if and
\* only if b is in a.outputs.
C1_EdgeSymmetry ==
    \A a \in StoredIn(Graph), b \in StoredIn(Graph) :
        a \in inputs[b] <=> b \in outputs[a]

\* Three stored circuits in a chain of two edges.
C1_Witness ==
    \E a \in StoredIn(Graph), b \in StoredIn(Graph), d \in StoredIn(Graph) :
        /\ a \in inputs[b] /\ b \in inputs[d]
        /\ b \in outputs[a] /\ d \in outputs[b]

\* What a detach of c leaves: no map entry, empty sets, no reference to c.
Released(c) ==
    /\ \A k \in DOMAIN circuits : circuits[k] # c
    /\ inputs[c] = {} /\ outputs[c] = {}
    /\ \A d \in StoredIn(Graph) : c \notin inputs[d] \cup outputs[d]

\* Every member of a stored circuit's inputs and outputs is stored.
NoDangling ==
    \A d \in StoredIn(Graph) : inputs[d] \cup outputs[d] \subseteq StoredIn(Graph)

\* C2. Detach leaves no dangling reference: a step that takes a stored circuit
\* c out of the Asic (a successful detach) leaves c released, and in every
\* state every member of a stored circuit's inputs and outputs is stored.
C2_DetachLeavesNoDangling ==
    /\ [][\A c \in Ids : (IsStored(c) /\ ~IsStored(c)') => Released(c)']_vars
    /\ []NoDangling

\* A circuit out of the Asic beside a stored circuit that attaching it would
\* link, while that stored circuit has an edge to a third one.
C2_Witness ==
    \E c \in Ids, d \in StoredIn(Graph) :
        /\ ~IsStored(c) /\ ~ConnectRaises(Graph, c)
        /\ d \in InputTargets(Graph, c) \cup OutputTargets(Graph, c)
        /\ inputs[d] \cup outputs[d] # {}
        /\ Released(c)

\* C3. Detach-then-attach is the identity on the graph shape: for every
\* stored circuit c, detach(c) followed by attach(c) gives back the same map
\* and the same inputs and outputs of every circuit.
C3_DetachAttachIdentity ==
    \A c \in StoredIn(Graph) : Connected(Disconnected(Graph, c), c) = Graph

\* Where an edge a -> b may run: a beside b horizontally, or a on the block the
\* torch b is mounted on, or b at an output coordinate of the lever or torch a.
Beside(p, q) ==
    /\ p[2] = q[2]
    /\ \/ p[3] = q[3] /\ p[1] - q[1] \in {-1, 1}
       \/ p[1] = q[1] /\ p[3] - q[3] \in {-1, 1}

EdgePlace(a, b) ==
    \/ Beside(objs[a].coords, objs[b].coords)
    \/ objs[b].name = "torch" /\ objs[a].coords \in Range(Mount(objs[b].coords, objs[b].orientation))
    \/ objs[a].name \in {"lever", "torch"} /\ objs[b].coords \in Range(iter_outputs(objs[a]))

\* C4 as claimed. Edge legality: an edge a -> b (a in b.inputs) exists only if
\* a.name is in b's traceables and a is at a legal place for b.
C4_EdgeLegalityAsClaimed ==
    \A a \in Ids, b \in Ids :
        a \in inputs[b] => objs[a].name \in traceables(objs[b].name) /\ EdgePlace(a, b)

\* C4, amended. Edge legality: an edge a -> b (a in b.inputs) exists only if
\* b.name is in a's traceables (traceables names the kinds a circuit feeds)
\* and a is at a legal place for b.
C4_EdgeLegality ==
    \A a \in Ids, b \in Ids :
        a \in inputs[b] => objs[b].name \in traceables(objs[a].name) /\ EdgePlace(a, b)

\* A lever above the plain block it drives, and a second edge into a torch.
C4_Witness ==
    \E a \in Ids, b \in Ids, t \in Ids :
        /\ a \in inputs[b] /\ objs[a].name = "lever"
        /\ ~Beside(objs[a].coords, objs[b].coords)
        /\ b \in inputs[t] /\ objs[t].name = "torch"

\* C5. Every Torch stored in the Asic has at most one element in inputs, and
\* that element is the circuit on the block the torch is mounted on.
C5_TorchSingleInput ==
    \A t \in StoredIn(Graph) :
        objs[t].name = "torch" =>
            /\ Cardinality(inputs[t]) <= 1
            /\ \A a \in inputs[t] :
                 objs[a].coords \in Range(Mount(objs[t].coords, objs[t].orientation))

(* ========================= properties of levers ======================= *)

IsLever(c) == objs[c].name = "lever"

\* C6. Every Lever has inputs = {} in every state reached by attach and
\* detach, whatever is attached beside it and in whatever order; so update on
\* a Lever returns before its op is called and leaves its status as it was.
C6_LeverHasNoInputs ==
    /\ \A c \in Ids : IsLever(c) =>
          /\ inputs[c] = {}
          /\ ~Updated(c).called
          /\ Updated(c).status = status[c]
          /\ Updated(c).ret = {}
    /\ (last.op \in {"update", "update_op"} /\ IsLever(last.c)) =>
          last.op = "update" /\ last.err = "none" /\ last.ret = SetOf({})

\* update has just run on a stored lever that is on and drives a circuit.
C6_Witness ==
    /\ last.op = "update" /\ IsLever(last.c) /\ IsStored(last.c)
    /\ status[last.c]
    /\ outputs[last.c] # {}

(* ======================== properties of the calls ===================== *)

\* The slot of c holds a circuit other than c.
SlotHoldsOther(c) ==
    \E k \in DOMAIN circuits : k = objs[c].coords /\ circuits[k] # c

GraphUnchanged == circuits' = circuits /\ inputs' = inputs /\ outputs' = outputs

\* C7. attach(c) fails with Occupied exactly when the slot at c.coords holds a
\* circuit other than c; a failed attach leaves the map and every circuit's
\* inputs and outputs as they were, and an attach that does not fail stores c.
C7_AttachOccupied ==
    [][last'.op = "attach" =>
          /\ last'.err \in {"none", "Occupied"}
          /\ last'.err = "Occupied" <=> SlotHoldsOther(last'.c)
          /\ last'.err = "Occupied" => GraphUnchanged
          /\ last'.err = "none" =>
                objs[last'.c].coords \in DOMAIN circuits'
                /\ circuits'[objs[last'.c].coords] = last'.c]_vars

\* An attach has just failed on a slot whose occupant has edges, beside a
\* stored circuit the refused one would have been linked to.
C7_Witness ==
    /\ last.op = "attach" /\ last.err = "Occupied"
    /\ inputs[circuits[last.at]] \cup outputs[circuits[last.at]] # {}
    /\ InputTargets(Graph, last.c) \cup OutputTargets(Graph, last.c) # {}
    /\ inputs[last.c] = {} /\ outputs[last.c] = {}

\* C8. detach(c) fails with NotAttached when nothing is stored at c.coords and
\* with Mismatch when the slot holds another circuit; both failures leave the
\* map and every circuit's inputs and outputs as they were.
C8_DetachErrors ==
    [][last'.op = "detach" =>
          /\ last'.err = "NotAttached" <=> objs[last'.c].coords \notin DOMAIN circuits
          /\ last'.err = "Mismatch" <=> SlotHoldsOther(last'.c)
          /\ last'.err = "none" <=> IsStored(last'.c)
          /\ last'.err # "none" => GraphUnchanged]_vars

\* A detach has just failed with Mismatch on a slot whose occupant has edges.
C8_Witness ==
    /\ last.op = "detach" /\ last.err = "Mismatch"
    /\ inputs[circuits[last.at]] \cup outputs[circuits[last.at]] # {}

(* ========================= properties of find_wires =================== *)

\* The stored wires.
StoredWires == {c \in StoredIn(Graph) : objs[c].name = "wire"}

\* The stored wires beside a wire of ws.
Grown(ws) == ws \cup {v \in StoredWires : \E w \in ws : Beside(objs[v].coords, objs[w].coords)}

RECURSIVE Closure(_)
Closure(ws) == IF Grown(ws) = ws THEN ws ELSE Closure(Grown(ws))

\* The wire group of the wire stored at p.
WireGroup(p) == Closure({circuits[p]})

HoldsWire(p) == p \in DOMAIN circuits /\ objs[circuits[p]].name = "wire"

Returned == last.op = "find_wires" /\ last.err = "none"

\* What find_wires gives for a wire: its whole group, and nothing else.
FoundGroup ==
    (Returned /\ HoldsWire(last.at)) =>
        /\ ~last.ret.none
        /\ circuits[last.at] \in last.ret.wires
        /\ last.ret.wires \subseteq StoredWires
        /\ Grown(last.ret.wires) = last.ret.wires
        /\ last.ret.wires = WireGroup(last.at)
        /\ \A w \in last.ret.wires : WireGroup(objs[w].coords) = last.ret.wires

\* C9. For every coordinate holding a Wire, find_wires terminates and returns
\* the maximal set of Wires connected to the seed through horizontally
\* adjacent Wires: it holds the seed, only Wires, is closed under wire-wire
\* adjacency, and is the same for every seed of the group.
C9_FindWiresGroup ==
    /\ []FoundGroup
    /\ (fw.pc = "loop") ~> (fw.pc = "idle" /\ Returned)

\* find_wires has returned a group of three or more wires that turns a corner,
\* with a plain block beside it and another stored wire outside it.
C9_Witness ==
    /\ Returned /\ HoldsWire(last.at)
    /\ Cardinality(last.ret.wires) >= 3
    /\ \E v \in last.ret.wires, w \in last.ret.wires :
          objs[v].coords[1] # objs[w].coords[1] /\ objs[v].coords[3] # objs[w].coords[3]
    /\ \E q \in StoredIn(Graph) :
          objs[q].name = "plain" /\ \E w \in last.ret.wires : Beside(objs[q].coords, objs[w].coords)

\* C10 as claimed. find_wires on a coordinate that holds no circuit, or a
\* circuit that is not a Wire, returns the empty set: a set with no members.
C10_EmptySetAsClaimed ==
    (Returned /\ ~HoldsWire(last.at)) => last.ret = SetOf({})

\* C10, amended. find_wires on a coordinate that holds no circuit, or a circuit
\* that is not a Wire, returns None, which is no set, and does not modify the
\* Asic.
C10_NoneForNonWire ==
    /\ [](Returned /\ ~HoldsWire(last.at) => last.ret = None)
    /\ [][(last'.op = "find_wires" /\ ~HoldsWire(last'.at)) =>
            GraphUnchanged /\ status' = status /\ fw' = Idle /\ last'.err = "none"]_vars

\* find_wires has returned for the coordinate of a plain block that has wires
\* beside it.
C10_Witness ==
    /\ Returned /\ last.at \in DOMAIN circuits
    /\ objs[circuits[last.at]].name = "plain"
    /\ inputs[circuits[last.at]] # {}
    /\ last.ret = None

(* ========================= properties of the codec ==================== *)

HandledBlocks == {"redstone-torch", "redstone-torch-off", "redstone-wire", "lever"}

\* The other slot of the torch pair.
OtherTorch(block) ==
    IF block = "redstone-torch" THEN "redstone-torch-off" ELSE "redstone-torch"

\* What truthify_block gives for the truth value that is not bbool's.
Complemented(b, m, r) ==
    CASE b \in {"redstone-torch", "redstone-torch-off"} -> r = <<OtherTorch(b), m>>
      [] b = "redstone-wire" -> r = <<b, IF m = 0 THEN 15 ELSE 0>>
      [] b = "lever" -> r = <<b, IF m >= 8 THEN m - 8 ELSE m + 8>>

\* C11. Codec round trip: for every block of the four handled kinds and every
\* metadata in 0..15, truthify_block(bbool(b, m), b, m) = (b, m); for the other
\* truth value a torch changes slot and keeps its metadata, an on wire gets
\* metadata 0, a wire of metadata 0 gets 0xF, and a lever changes only bit 0x8.
C11_CodecRoundTrip ==
    (codec.op = "truthify_block" /\ codec.block \in HandledBlocks) =>
        IF codec.truth = bbool(codec.block, codec.metadata)
        THEN codec.ret = <<codec.block, codec.metadata>>
        ELSE Complemented(codec.block, codec.metadata, codec.ret)

\* truthify_block has given back a wire of strength 7 as it was.
C11_Witness ==
    /\ codec.op = "truthify_block" /\ codec.block = "redstone-wire"
    /\ codec.metadata = 7 /\ codec.truth
    /\ codec.ret = <<"redstone-wire", 7>>

(* ======================= properties of propagation =================== *)

\* The circuits at the seed coordinates of the pass.
Seeded == {circuits[k] : k \in pg.seeds \cap DOMAIN circuits}

\* The circuits reachable from cs along output edges, cs included.
RECURSIVE ReachFrom(_)
ReachFrom(cs) ==
    LET more == cs \cup UNION {outputs[c] : c \in cs}
    IN  IF more = cs THEN cs ELSE ReachFrom(more)

\* The number of gate evaluations (Circuit.update calls) of the circuits cs.
RECURSIVE Evaluations(_)
Evaluations(cs) ==
    IF cs = {} THEN 0
    ELSE LET c == CHOOSE c \in cs : TRUE
         IN  pg.evals[c] + Evaluations(cs \ {c})

WithinBound ==
    pg.pc \in {"run", "done"} =>
        /\ \A c \in Ids : pg.evals[c] <= 2
        /\ \A c \in Ids : pg.evals[c] > 0 => c \in ReachFrom(Seeded)
        /\ Evaluations(Ids) <= 2 * Cardinality(ReachFrom(Seeded))

\* C12. Propagation termination: on every graph reached by attach and detach
\* (feedback loops of torch, wire and plain block included) and for every seed
\* set, a pass ends; it evaluates each circuit at most twice and only circuits
\* reachable from the seeds, so at most 2 * |reachable gates| evaluations.
C12_PropagationTerminates ==
    /\ []WithinBound
    /\ (pg.pc = "run") ~> (pg.pc = "done")

\* A pass has ended on a graph with a feedback loop, after evaluating four or
\* more circuits, one of them on the loop twice.
C12_Witness ==
    /\ pg.pc = "done" /\ pg.err = "none"
    /\ Cardinality({c \in Ids : pg.evals[c] > 0}) >= 4
    /\ \E c \in Ids : pg.evals[c] = 2 /\ c \in ReachFrom(outputs[c])

\* Asic(): no circuit stored, and the circuits as constructed.
EmptyGraph ==
    [circuits |-> <<>>, inputs |-> [i \in Ids |-> {}], outputs |-> [i \in Ids |-> {}]]

\* c.connect(asic) for each c of order, in that order, on the graph g.
RECURSIVE AttachAll(_, _)
AttachAll(g, order) ==
    IF order = <<>> THEN g ELSE AttachAll(Connected(g, Head(order)), Tail(order))

\* The circuits of the lever scenario: lever 1 mounted +y at (0,0,0), plain
\* block 2 at (0,-1,0), wire 3 with metadata 0 at (1,-1,0), attached in this
\* order.
LeverScenario ==
    /\ Len(objs) = 3
    /\ objs[1].name = "lever" /\ objs[1].orientation = "+y" /\ objs[1].coords = <<0, 0, 0>>
    /\ objs[2].name = "plain" /\ objs[2].coords = <<0, -1, 0>>
    /\ objs[3].name = "wire" /\ objs[3].coords = <<1, -1, 0>> /\ objs[3].metadata = 0
    /\ Graph = AttachAll(EmptyGraph, <<1, 2, 3>>)

\* C13. A lever drives a wire through a plain block: with the lever, the plain
\* block and the wire attached in this order, the lever toggled on and a pass
\* run from the seed (0,0,0), the plain block and the wire end on, the write
\* ((1,-1,0), wire, 0xF) is emitted, and the graph has the edges
\* lever -> plain -> wire.
C13_LeverDrivesWire ==
    (LeverScenario /\ status[1] /\ pg.pc = "done" /\ pg.seeds = {<<0, 0, 0>>}) =>
        /\ 1 \in inputs[2] /\ 2 \in inputs[3]
        /\ status[2] /\ status[3]
        /\ <<(<<1, -1, 0>>), "redstone-wire", 15>> \in Range(pg.writes)

(* ========================= properties of the status =================== *)

\* C14. A circuit's status changes only through update of that circuit or a
\* toggle of that lever: attach, detach and find_wires leave every status as
\* it was, and update(c) changes no status but c's, no inputs or outputs set
\* and no entry of the map.
C14_StatusFrame ==
    [][/\ \A c \in Ids : status'[c] # status[c] =>
              \/ last'.op = "update_op" /\ last'.c = c
              \/ last'.op = "toggle" /\ last'.c = c /\ IsLever(c)
       /\ last'.op \in {"attach", "detach", "find_wires"} => status' = status
       /\ last'.op \in {"update", "update_op"} => GraphUnchanged]_vars

\* update has just changed the status of a circuit and returned an output
\* whose status is now the other one.
C14_Witness ==
    /\ last.op = "update_op" /\ last.err = "none"
    /\ \E d \in last.ret.wires : status[d] # status[last.c]

(* ========================= properties of attach ======================= *)

\* The stored circuits at a coordinate of the input scan, of the output scan.
AtInputScan(c) ==
    {d \in StoredIn(Graph) : objs[d].coords \in Range(iter_inputs(objs[c]))}

AtOutputScan(c) ==
    {d \in StoredIn(Graph) : objs[d].coords \in Range(iter_outputs(objs[c]))}

\* The edges between circuits other than c are as they were.
OtherEdgesUnchanged(c) ==
    \A d \in Ids \ {c} :
        inputs'[d] \ {c} = inputs[d] \ {c} /\ outputs'[d] \ {c} = outputs[d] \ {c}

\* C15 as claimed. After attach(c) of a fresh circuit, c.inputs is the set of
\* circuits at an input-scan coordinate whose name is in c's traceables,
\* c.outputs is the set of circuits at an output-scan coordinate whose
\* traceables hold c.name, and no other edge has changed.
C15_AttachPostAsClaimed ==
    [][\A c \in Ids : (~IsStored(c) /\ IsStored(c)') =>
          /\ inputs'[c] =
                {d \in AtInputScan(c) : objs[d].name \in traceables(objs[c].name)}
          /\ outputs'[c] =
                {d \in AtOutputScan(c) : objs[c].name \in traceables(objs[d].name)}
          /\ OtherEdgesUnchanged(c)]_vars

\* C15, amended. After attach(c) of a fresh circuit, c.inputs is the set of
\* circuits at an input-scan coordinate whose traceables hold c.name,
\* c.outputs is the set of circuits at an output-scan coordinate whose name is
\* in c's traceables, and no other edge has changed.
C15_AttachPost ==
    [][\A c \in Ids : (~IsStored(c) /\ IsStored(c)') =>
          /\ inputs'[c] =
                {d \in AtInputScan(c) : objs[c].name \in traceables(objs[d].name)}
          /\ outputs'[c] =
                {d \in AtOutputScan(c) : objs[d].name \in traceables(objs[c].name)}
          /\ OtherEdgesUnchanged(c)]_vars

\* A stored circuit with the edges of its own two scans, next to a stored
\* circuit at a scan coordinate that the traceables tests keep out.
C15_Witness ==
    \E c \in StoredIn(Graph) :
        /\ inputs[c] \cup outputs[c] # {}
        /\ inputs[c] = {d \in AtInputScan(c) : objs[c].name \in traceables(objs[d].name)}
        /\ outputs[c] = {d \in AtOutputScan(c) : objs[d].name \in traceables(objs[c].name)}
        /\ (AtInputScan(c) \cup AtOutputScan(c)) \ (inputs[c] \cup outputs[c]) # {}

(* ========================= properties of update ======================= *)

\* The new value of c the claim names, with the inputs read in the order o:
\* OR for a Wire and a PlainBlock, NOT of the single input for a Torch.
NewValue(c, o) ==
    IF objs[c].name = "torch" THEN not_(StatusList(o)) ELSE any(StatusList(o))

\* What the claim says of a call update(c) that gave back ret: nothing changed
\* and nothing returned with no inputs or an equal value, else the new value
\* stored and the outputs returned, whatever the order the inputs are read in.
UpdateStep(c, ret) ==
    IF inputs[c] = {}
    THEN status'[c] = status[c] /\ ret = SetOf({})
    ELSE \A o \in Orders(inputs[c]) :
            IF NewValue(c, o) = status[c]
            THEN status'[c] = status[c] /\ ret = SetOf({})
            ELSE status'[c] = NewValue(c, o) /\ ret = SetOf(outputs[c])

\* C16. Gate update step: update(c) returns the empty result and leaves
\* c.status as it was when c.inputs is empty or op of the inputs' statuses
\* equals c.status; otherwise it sets c.status to the new value (OR of the
\* inputs for Wire and PlainBlock, NOT of the single input for Torch) and
\* returns c's outputs; the order the inputs are read in makes no difference.
C16_UpdateStep ==
    [][(last'.op \in {"update", "update_op"} /\ last'.err = "none") =>
          /\ objs[last'.c].name = "torch" => Cardinality(inputs[last'.c]) <= 1
          /\ UpdateStep(last'.c, last'.ret)]_vars

\* update has just switched on a plain block that has two inputs of different
\* statuses.
C16_Witness ==
    /\ last.op = "update_op" /\ last.err = "none"
    /\ objs[last.c].name = "plain" /\ status[last.c]
    /\ \E a \in inputs[last.c], b \in inputs[last.c] : status[a] /\ ~status[b]

(* ===================== properties of the scans and orders ============= *)

IsTorch(c) == objs[c].name = "torch"

\* The horizontal neighbours of the torch t other than the block it is
\* mounted on.
NonMounting(t) ==
    {q \in Range(HorizontalAndVertical(objs[t].coords)) : Beside(q, objs[t].coords)}
        \ Range(Mount(objs[t].coords, objs[t].orientation))

\* C17. Torch output rule: the output scan of an attached Torch of any
\* orientation yields every horizontal neighbour that is not the block it is
\* mounted on (three for a side-mounted torch, four for a +y torch) and never
\* that block; so the torch has an output edge to a wire stored at any of them.
C17_TorchOutputRule ==
    \A t \in StoredIn(Graph) : IsTorch(t) =>
        /\ Range(iter_outputs(objs[t])) = NonMounting(t)
        /\ Cardinality(NonMounting(t)) = IF objs[t].orientation = "+y" THEN 4 ELSE 3
        /\ \A w \in StoredWires : objs[w].coords \in NonMounting(t) => w \in outputs[t]

\* C18. Evaluation errors are the typed RedstoneError: update on a stored
\* Lever with inputs, and update on a stored Torch with more than one input,
\* raise RedstoneError and leave the status as it was.
C18_TypedErrors ==
    \A c \in StoredIn(Graph) :
        (\/ IsLever(c) /\ inputs[c] # {}
         \/ IsTorch(c) /\ Cardinality(inputs[c]) > 1) =>
            /\ Updated(c).raised = "RedstoneError"
            /\ Updated(c).status = status[c]

\* C19. Attach is order-independent: when the graph is what attaching the
\* stored circuits to an empty Asic in one order gives, attaching them in any
\* other order gives the same map and the same inputs and outputs of every
\* circuit.
C19_AttachOrderIndependent ==
    \A o \in Orders(StoredIn(Graph)) :
        Graph = AttachAll(EmptyGraph, o) =>
            \A p \in Orders(StoredIn(Graph)) : AttachAll(EmptyGraph, p) = Graph

\* C20. Re-attach is a no-op: in every state, attach(c) on a circuit c stored
\* at c.coords does not fail and leaves the map and every circuit's inputs and
\* outputs as they are.
C20_ReattachNoOp ==
    \A c \in StoredIn(Graph) :
        ~ConnectRaises(Graph, c) /\ Connected(Graph, c) = Graph

====
